---- MODULE Spec2Model ----
(***************************************************************************)
(* Model of the freedesktop icon lookup cache: the theme cache             *)
(* (Cache::load / load_inner), theme construction (Theme::new,             *)
(* find_dir_icons), the directory matching policy (Directory) and the      *)
(* recursive inherited-theme lookup (Cache::lookup*, lookup_themed).       *)
(*                                                                         *)
(* Theme::inherits() is a list of names (theme.rs:21-24,72-74); the places *)
(* of lookup.rs that consume it (lines 72-74 and 161) are read as          *)
(* iterating over every name of that list.                                 *)
(***************************************************************************)
EXTENDS Integers, Sequences, FiniteSets, TLC

VARIABLES
    env,              \* process environment read by search_dirs()
    fs,               \* the filesystem: theme directories per root, pixmap dir
    overflow_checks,  \* build profile: TRUE = arithmetic overflow panics
    themes,           \* Cache.themes : theme name -> list of Theme
    pixmaps,          \* Cache.pixmaps: icon name -> path
    last              \* the latest call and what it returned

vars == <<env, fs, overflow_checks, themes, pixmaps, last>>

----------------------------------------------------------------------------
(* Option<T>, and the outcome of a call that panicked instead of returning *)
None == [some |-> FALSE]
Some(v) == [some |-> TRUE, val |-> v]
Panic == [some |-> FALSE, panic |-> TRUE]

EmptyMap == [k \in {} |-> <<>>]

RECURSIVE SeqToSet(_)
SeqToSet(s) == IF s = <<>> THEN {} ELSE {Head(s)} \cup SeqToSet(Tail(s))

(* Program constants *)
DEFAULT_THEME == "hicolor"
LoadDepthCap == 10
LookupDepthCap == 10
DefaultSize == 48
DefaultScale == 1
U16Max == 65535

PIXMAPS_DIR == <<"/usr/share/pixmaps">>

----------------------------------------------------------------------------
(* search_dirs(): $HOME/.icons, then $XDG_DATA_DIRS entries + "icons", or  *)
(* the two fixed directories when XDG_DATA_DIRS is unset.  The value of    *)
(* XDG_DATA_DIRS is a string, here a sequence of pieces of text and ":"    *)
(* characters; a path is the sequence of the pieces joined to make it.     *)
RECURSIVE split(_, _, _)
split(s, sep, cur) ==
    IF s = <<>> THEN <<cur>>
    ELSE IF Head(s) = sep THEN <<cur>> \o split(Tail(s), sep, <<>>)
    ELSE split(Tail(s), sep, Append(cur, Head(s)))

join(path, component) == path \o <<component>>

(* mutant of search_dirs: the home directory is searched last *)
search_dirs_home_last(e) ==
    (IF e.XDG_DATA_DIRS.some
     THEN LET entries == split(e.XDG_DATA_DIRS.val, ":", <<>>)
          IN  [i \in 1..Len(entries) |-> join(entries[i], "icons")]
     ELSE << <<"/usr/share/local", "icons">>, <<"/usr/share", "icons">> >>)
    \o (IF e.HOME.some THEN << join(<<e.HOME.val>>, ".icons") >> ELSE <<>>)

search_dirs(e) ==
    (IF e.HOME.some THEN << join(<<e.HOME.val>>, ".icons") >> ELSE <<>>)
    \o (IF e.XDG_DATA_DIRS.some
        THEN LET entries == split(e.XDG_DATA_DIRS.val, ":", <<>>)
             IN  [i \in 1..Len(entries) |-> join(entries[i], "icons")]
        ELSE << <<"/usr/share/local", "icons">>, <<"/usr/share", "icons">> >>)

----------------------------------------------------------------------------
(* find_dir_icons: the icon name of a file is its name up to the last '.'  *)
(* (rfind('.').unwrap_or(0)); directories are skipped.  A file name is a   *)
(* sequence of characters.                                                 *)
RECURSIVE rfind(_, _, _)
rfind(name, ch, i) ==
    IF i = 0 THEN None
    ELSE IF name[i] = ch THEN Some(i - 1)
    ELSE rfind(name, ch, i - 1)

icon_name_of(file_name) ==
    LET r == rfind(file_name, ".", Len(file_name))
        end == IF r.some THEN r.val ELSE 0
    IN  SubSeq(file_name, 1, end)

(* A directory listing is [io, entries]; io is the outcome of read_dir:    *)
(* "ok", "denied"/"notfound" (swallowed by filter_io_errors) or "error".   *)
(* Returns [err, found], found being the (icon_name, path) pairs in        *)
(* listing order.                                                          *)
RECURSIVE find_entries(_, _)
find_entries(dir_path, entries) ==
    IF entries = <<>> THEN <<>>
    ELSE LET e == Head(entries)
             rest == find_entries(dir_path, Tail(entries))
         IN  IF e.is_dir THEN rest
             ELSE << [icon_name |-> icon_name_of(e.name),
                      path |-> [dir |-> dir_path, file |-> e.name]] >> \o rest

find_dir_icons(dir_path, listing) ==
    IF listing.io = "error" THEN [err |-> "TraverseDir", found |-> <<>>]
    ELSE IF listing.io # "ok" THEN [err |-> "ok", found |-> <<>>]
    ELSE [err |-> "ok", found |-> find_entries(dir_path, listing.entries)]

----------------------------------------------------------------------------
(* Theme::new(path).  A theme directory on disk is                          *)
(*   [index, inherits, has_directories, dirs]                               *)
(* index: "missing" | "invalid" | "ok"; inherits: the split and trimmed     *)
(* Inherits value; dirs: the declared Directories followed by the           *)
(* ScaledDirectories, each [name, spec, listing] with spec the result of    *)
(* Directory::read (None when the section is unusable).                     *)
RECURSIVE push_icons(_, _, _)
push_icons(icon_infos, found, directory) ==
    IF found = <<>> THEN icon_infos
    ELSE LET f == Head(found)
             info == [path |-> f.path, directory |-> directory]
             next == IF f.icon_name \in DOMAIN icon_infos
                     THEN [icon_infos EXCEPT ![f.icon_name] = Append(@, info)]
                     ELSE icon_infos @@ (f.icon_name :> <<info>>)
         IN  push_icons(next, Tail(found), directory)

RECURSIVE scan_directories(_, _, _)
scan_directories(theme_path, dirs, acc) ==
    IF dirs = <<>> \/ acc.err # "ok" THEN acc
    ELSE LET d == Head(dirs)
         IN  IF ~d.spec.some THEN scan_directories(theme_path, Tail(dirs), acc)
             ELSE LET r == find_dir_icons(theme_path \o <<d.name>>, d.listing)
                  IN  IF r.err # "ok"
                      THEN [err |-> r.err, icon_infos |-> acc.icon_infos]
                      ELSE scan_directories(theme_path, Tail(dirs),
                               [err |-> "ok",
                                icon_infos |-> push_icons(acc.icon_infos, r.found, d.spec.val)])

Theme_new(path, disk) ==
    IF disk.index = "missing" THEN [err |-> "ThemeIndexMissing"]
    ELSE IF disk.index = "invalid" THEN [err |-> "InvalidIndex"]
    ELSE IF ~disk.has_directories THEN [err |-> "InvalidTheme"]
    ELSE LET r == scan_directories(path, disk.dirs, [err |-> "ok", icon_infos |-> EmptyMap])
         IN  IF r.err # "ok" THEN [err |-> r.err]
             ELSE [err |-> "ok",
                   theme |-> [path |-> path,
                              icon_infos |-> r.icon_infos,
                              inherits |-> disk.inherits]]

----------------------------------------------------------------------------
(* Cache::load_inner.  The state threaded through the recursion is         *)
(* [themes, err, scans]: the theme map, the error being propagated by `?`  *)
(* ("ok" while none), and the number of Theme::new calls made.             *)
RECURSIVE load_inner(_, _, _)
RECURSIVE load_search_dirs(_, _, _, _)
RECURSIVE load_inherits(_, _, _, _)

entry_push(th, theme, t) ==
    IF theme \in DOMAIN th THEN [th EXCEPT ![theme] = Append(@, t)]
    ELSE th @@ (theme :> <<t>>)

(* mutant of load_inherits: a parent that fails to load is skipped *)
load_inherits_skips_failed(st, inherits, depth, j) ==
    IF j > Len(inherits) THEN st
    ELSE LET st2 == load_inner(st, inherits[j], depth + 1)
         IN  load_inherits([st2 EXCEPT !.err = "ok"], inherits, depth, j + 1)

load_inherits(st, inherits, depth, j) ==
    IF j > Len(inherits) THEN st
    ELSE LET st2 == load_inner(st, inherits[j], depth + 1)
         IN  IF st2.err # "ok" THEN st2
             ELSE load_inherits(st2, inherits, depth, j + 1)

load_search_dirs(st, theme, depth, i) ==
    LET dirs == search_dirs(env)
    IN  IF i > Len(dirs) THEN st
        ELSE IF theme \notin DOMAIN fs.themes[dirs[i]]
             THEN load_search_dirs(st, theme, depth, i + 1)
        ELSE LET t == Theme_new(dirs[i] \o <<theme>>, fs.themes[dirs[i]][theme])
                 st1 == [st EXCEPT !.scans = @ + 1]
             IN  IF t.err # "ok" THEN [st1 EXCEPT !.err = t.err]
                 ELSE LET st2 == load_inherits(st1, t.theme.inherits, depth, 1)
                      IN  IF st2.err # "ok" THEN st2
                          ELSE load_search_dirs(
                                   [st2 EXCEPT !.themes = entry_push(@, theme, t.theme)],
                                   theme, depth, i + 1)

(* mutants of load_inner: no early return for a loaded theme; cap lowered by one *)
load_inner_always_scans(st, theme, depth) ==
    IF depth > LoadDepthCap THEN [st EXCEPT !.err = "CycleDetected"]
    ELSE load_search_dirs(st, theme, depth, 1)

load_inner_cap_off_by_one(st, theme, depth) ==
    IF theme \in DOMAIN st.themes THEN st
    ELSE IF depth >= LoadDepthCap THEN [st EXCEPT !.err = "CycleDetected"]
    ELSE load_search_dirs(st, theme, depth, 1)

(* mutant of load_inner: a theme found in no search root is an error *)
load_inner_reports_not_found(st, theme, depth) ==
    IF theme \in DOMAIN st.themes THEN st
    ELSE IF depth > LoadDepthCap THEN [st EXCEPT !.err = "CycleDetected"]
    ELSE IF \A r \in DOMAIN fs.themes : theme \notin DOMAIN fs.themes[r]
         THEN [st EXCEPT !.err = "ThemeNotFound"]
    ELSE load_search_dirs(st, theme, depth, 1)

load_inner(st, theme, depth) ==
    IF theme \in DOMAIN st.themes THEN st
    ELSE IF depth > LoadDepthCap THEN [st EXCEPT !.err = "CycleDetected"]
    ELSE load_search_dirs(st, theme, depth, 1)

load(th, theme) == load_inner([themes |-> th, err |-> "ok", scans |-> 0], theme, 0)

----------------------------------------------------------------------------
(* Directory: [size, scale, kind, min_size, max_size, threshold], all u16. *)
Fixed(size, scale) ==
    [size |-> size, scale |-> scale, kind |-> "Fixed",
     min_size |-> 0, max_size |-> 0, threshold |-> 0]
Scalable(size, scale, min_size, max_size) ==
    [size |-> size, scale |-> scale, kind |-> "Scalable",
     min_size |-> min_size, max_size |-> max_size, threshold |-> 0]
Threshold(size, scale, threshold) ==
    [size |-> size, scale |-> scale, kind |-> "Threshold",
     min_size |-> 0, max_size |-> 0, threshold |-> threshold]

saturating_sub(a, b) == IF a < b THEN 0 ELSE a - b
saturating_add(a, b) == IF a + b > U16Max THEN U16Max ELSE a + b
saturating_mul(a, b) == IF a * b > U16Max THEN U16Max ELSE a * b

(* mutant of is_matches: the lower threshold bound wraps instead of saturating *)
is_matches_wrapping(d, icon_size, icon_scale) ==
    IF d.scale # icon_scale THEN FALSE
    ELSE CASE d.kind = "Fixed" -> d.size = icon_size
           [] d.kind = "Scalable" -> d.min_size <= icon_size /\ icon_size <= d.max_size
           [] d.kind = "Threshold" ->
                  /\ (d.size - d.threshold) % (U16Max + 1) <= icon_size
                  /\ icon_size <= saturating_add(d.size, d.threshold)

is_matches(d, icon_size, icon_scale) ==
    IF d.scale # icon_scale THEN FALSE
    ELSE CASE d.kind = "Fixed" -> d.size = icon_size
           [] d.kind = "Scalable" -> d.min_size <= icon_size /\ icon_size <= d.max_size
           [] d.kind = "Threshold" ->
                  /\ saturating_sub(d.size, d.threshold) <= icon_size
                  /\ icon_size <= saturating_add(d.size, d.threshold)

size_distance_range(d) ==
    CASE d.kind = "Fixed" ->
             LET scaled_size == saturating_mul(d.size, d.scale)
             IN  <<scaled_size, scaled_size>>
      [] d.kind = "Scalable" ->
             <<saturating_mul(d.min_size, d.scale), saturating_mul(d.max_size, d.scale)>>
      [] d.kind = "Threshold" ->
             <<saturating_sub(d.size, d.threshold), saturating_add(d.size, d.threshold)>>

(* `icon_size * icon_scale` is a plain u16 multiplication: on overflow it  *)
(* panics when the build checks overflow and wraps modulo 2^16 otherwise.  *)
size_distance(d, icon_size, icon_scale) ==
    IF icon_size * icon_scale > U16Max /\ overflow_checks THEN Panic
    ELSE LET icon_scaled_size == (icon_size * icon_scale) % (U16Max + 1)
             range == size_distance_range(d)
             left == range[1]
             right == range[2]
         IN  Some(IF left > icon_scaled_size THEN left - icon_scaled_size
                  ELSE IF right < icon_scaled_size THEN icon_scaled_size - right
                  ELSE 0)

----------------------------------------------------------------------------
(* LookupParam *)
LookupParam_new(name) == [name |-> name, theme |-> None, size |-> None, scale |-> None]
with_theme(p, theme) == [p EXCEPT !.theme = theme]
with_size(p, size) == [p EXCEPT !.size = Some(size)]
with_scale(p, scale) == [p EXCEPT !.scale = Some(scale)]
param_size(p) == IF p.size.some THEN p.size.val ELSE DefaultSize
param_scale(p) == IF p.size.some THEN p.size.val ELSE DefaultScale

(* The ranking closure of lookup_param.  Indices are 0-based as in the     *)
(* source.  position(): the first candidate that matches; min_by_key():    *)
(* the first candidate among those of least distance.                      *)
RECURSIVE position_matches(_, _, _, _)
position_matches(infos, i, icon_size, icon_scale) ==
    IF i > Len(infos) THEN None
    ELSE IF is_matches(infos[i].directory, icon_size, icon_scale) THEN Some(i - 1)
    ELSE position_matches(infos, i + 1, icon_size, icon_scale)

RECURSIVE min_by_distance(_, _, _, _, _)
min_step(infos, i, best, key, icon_size, icon_scale) ==
    IF key = Panic THEN Panic
    ELSE min_by_distance(infos, i + 1,
                         IF ~best.some \/ key.val < best.val.key
                         THEN Some([idx |-> i - 1, key |-> key.val])
                         ELSE best,
                         icon_size, icon_scale)

min_by_distance(infos, i, best, icon_size, icon_scale) ==
    IF i > Len(infos) THEN best
    ELSE min_step(infos, i, best,
                  size_distance(infos[i].directory, icon_size, icon_scale),
                  icon_size, icon_scale)

(* `if let Some(idx) = position {return Some(idx)}`, then the same for the *)
(* minimum, then None                                                      *)
position_or_min(pos, m) ==
    IF pos.some THEN pos
    ELSE IF m = Panic THEN Panic
    ELSE IF m.some THEN Some(m.val.idx)
    ELSE None

rank_at(infos, icon_size, icon_scale) ==
    position_or_min(position_matches(infos, 1, icon_size, icon_scale),
                    min_by_distance(infos, 1, None, icon_size, icon_scale))

default_ranker(param, infos) == rank_at(infos, param_size(param), param_scale(param))

(* A ranker handed to lookup_advanced is a closure from the candidate list *)
(* to Option<usize>; the model draws it from a few representative ones.    *)
apply_ranker(f, infos) ==
    CASE f.kind = "default" -> default_ranker(f.param, infos)
      [] f.kind = "first" -> Some(0)
      [] f.kind = "last" -> Some(Len(infos) - 1)
      [] f.kind = "out_of_range" -> Some(Len(infos))
      [] f.kind = "none" -> None

----------------------------------------------------------------------------
(* Theme::icon_search and IconSearch::path.  Search roots are absolute, so *)
(* joining the theme path with the (absolute) entry path is the entry path.*)
selected(theme, icons, r) ==
    IF r = Panic THEN Panic
    ELSE IF ~r.some THEN None
    ELSE IF r.val + 1 > Len(icons) THEN None
    ELSE Some([theme |-> theme, info |-> icons[r.val + 1]])

icon_search(theme, name, f) ==
    IF name \notin DOMAIN theme.icon_infos THEN None
    ELSE selected(theme, theme.icon_infos[name], apply_ranker(f, theme.icon_infos[name]))

IconSearch_path(s) == s.info.path

(* Cache::lookup_themed *)
RECURSIVE lookup_themed(_, _, _, _)
RECURSIVE lookup_occurrences(_, _, _, _)
RECURSIVE lookup_parents(_, _, _, _, _)

RECURSIVE all_inherits(_)
all_inherits(occs) ==
    IF occs = <<>> THEN <<>> ELSE Head(occs).inherits \o all_inherits(Tail(occs))

(* `if let Some(search) = first {return Some(search)}`, then the rest; a   *)
(* panic in the first ends the call.                                       *)
or_else(first, rest) == IF first = Panic \/ first.some THEN first ELSE rest

lookup_occurrences(occs, i, icon_name, f) ==
    IF i > Len(occs) THEN None
    ELSE or_else(icon_search(occs[i], icon_name, f),
                 lookup_occurrences(occs, i + 1, icon_name, f))

(* mutant of lookup_parents: the walk stops at a parent that is not loaded *)
lookup_parents_stops_at_unloaded(parents, j, icon_name, f, depth) ==
    IF j > Len(parents) THEN None
    ELSE IF parents[j] \notin DOMAIN themes THEN None
    ELSE or_else(lookup_themed(parents[j], icon_name, f, depth + 1),
                 lookup_parents(parents, j + 1, icon_name, f, depth))

lookup_parents(parents, j, icon_name, f, depth) ==
    IF j > Len(parents) THEN None
    ELSE or_else(lookup_themed(parents[j], icon_name, f, depth + 1),
                 lookup_parents(parents, j + 1, icon_name, f, depth))

(* mutant of lookup_themed: a theme that is not loaded is searched as the   *)
(* default theme                                                           *)
lookup_themed_defaults_unloaded(theme, icon_name, f, depth) ==
    IF depth > LookupDepthCap THEN None
    ELSE IF theme \notin DOMAIN themes
         THEN (IF theme = DEFAULT_THEME THEN None
               ELSE lookup_themed(DEFAULT_THEME, icon_name, f, depth))
    ELSE or_else(lookup_occurrences(themes[theme], 1, icon_name, f),
                 lookup_parents(all_inherits(themes[theme]), 1, icon_name, f, depth))

lookup_themed(theme, icon_name, f, depth) ==
    IF depth > LookupDepthCap THEN None
    ELSE IF theme \notin DOMAIN themes THEN None
    ELSE or_else(lookup_occurrences(themes[theme], 1, icon_name, f),
                 lookup_parents(all_inherits(themes[theme]), 1, icon_name, f, depth))

unwrap_or_default(theme) == IF theme.some THEN theme.val ELSE DEFAULT_THEME

pixmaps_get(name) == IF name \in DOMAIN pixmaps THEN Some(pixmaps[name]) ELSE None

(* mutant of path_or_pixmap: the pixmap map is consulted before the themes *)
pixmap_or_path(s, name) ==
    IF name \in DOMAIN pixmaps THEN pixmaps_get(name)
    ELSE IF s = Panic THEN Panic
    ELSE IF s.some THEN Some(IconSearch_path(s.val))
    ELSE None

(* `.map(|s| s.path()).or_else(|| self.pixmaps.get(name).cloned())` *)
path_or_pixmap(s, name) ==
    IF s = Panic THEN Panic
    ELSE IF s.some THEN Some(IconSearch_path(s.val))
    ELSE pixmaps_get(name)

lookup_advanced(name, theme, f) ==
    path_or_pixmap(lookup_themed(unwrap_or_default(theme), name, f, 0), name)

lookup_param(param) ==
    path_or_pixmap(lookup_themed(unwrap_or_default(param.theme), param.name,
                                 [kind |-> "default", param |-> param], 0),
                   param.name)

lookup(name, theme) == lookup_param(with_theme(LookupParam_new(name), theme))

(* Cache::new: the pixmap map, the last file of a stem winning.            *)
RECURSIVE insert_all(_, _)
insert_all(m, found) ==
    IF found = <<>> THEN m
    ELSE LET f == Head(found)
         IN  insert_all([k \in DOMAIN m \cup {f.icon_name} |->
                            IF k = f.icon_name THEN f.path ELSE m[k]],
                        Tail(found))

Cache_new(disk) ==
    LET r == find_dir_icons(PIXMAPS_DIR, disk.pixmaps)
    IN  IF r.err # "ok" THEN [err |-> r.err]
        ELSE [err |-> "ok", themes |-> EmptyMap, pixmaps |-> insert_all(EmptyMap, r.found)]

----------------------------------------------------------------------------
(* The environments and filesystems the model starts from.                 *)
MaxChain == 12

MainEnv == [HOME |-> Some("/home"), XDG_DATA_DIRS |-> Some(<<"/usr/share">>)]
Root1 == <<"/home", ".icons">>
Root2 == <<"/usr/share", "icons">>
Roots == {Root1, Root2}

FileF == <<"f", ".", "p">>
FileFs == <<"f", ".", "s">>
IconF == <<"f">>
IconNames == {IconF}

File(name) == [name |-> name, is_dir |-> FALSE]
Listing(entries) == [io |-> "ok", entries |-> entries]
IconDir(name, spec, entries) ==
    [name |-> name, spec |-> Some(spec), listing |-> Listing(entries)]

Dir32 == IconDir("32", Fixed(32, 1), <<File(FileF)>>)
Dir48 == IconDir("48", Fixed(48, 1), <<File(FileF)>>)

ThemeDir(inherits, dirs) ==
    [index |-> "ok", inherits |-> inherits, has_directories |-> TRUE, dirs |-> dirs]
BrokenDir == [index |-> "missing", inherits |-> <<>>, has_directories |-> FALSE, dirs |-> <<>>]
Absent == [index |-> "absent"]

(* A choice of one option per (root, name), "Absent" leaving the theme out *)
(* of that root.                                                           *)
Populate(choice) ==
    [r \in Roots |-> [n \in {m \in DOMAIN choice[r] : choice[r][m] # Absent} |-> choice[r][n]]]

PixmapListings == {Listing(<<>>), Listing(<<File(FileFs), File(FileF)>>)}

(* Themes "hicolor" and "A" over both roots; "ghost" exists in no root.    *)
SmallNames == {"hicolor", "A"}

LoadOptions ==
    {Absent, BrokenDir}
    \cup {ThemeDir(inh, <<>>) : inh \in {<<>>, <<"hicolor">>, <<"A">>, <<"ghost">>}}

LoadLayouts ==
    {[themes |-> Populate(c), pixmaps |-> Listing(<<>>)] :
        c \in [Roots -> [SmallNames -> LoadOptions]]}

(* Layouts for lookups: "A" may inherit "hicolor" (after a name that      *)
(* exists nowhere), "hicolor" inherits nothing.                            *)
LookupOptionsA ==
    {Absent}
    \cup {ThemeDir(inh, dirs) : inh \in {<<>>, <<"ghost", "hicolor">>},
                                dirs \in {<<>>, <<Dir32>>}}
LookupOptionsHicolor ==
    {Absent} \cup {ThemeDir(<<>>, dirs) : dirs \in {<<>>, <<Dir48>>, <<Dir32, Dir48>>}}

LookupLayouts ==
    {[themes |-> Populate([r \in Roots |-> ("A" :> a[r]) @@ ("hicolor" :> h[r])]),
      pixmaps |-> p] :
        a \in [Roots -> LookupOptionsA], h \in [Roots -> LookupOptionsHicolor],
        p \in PixmapListings}

(* Layouts whose loaded themes inherit each other in a cycle: "hicolor" in *)
(* the second root inherits "A", which inherits "hicolor".                 *)
CycleLayouts ==
    {[themes |->
        (Root1 :> (("hicolor" :> ThemeDir(<<>>, <<>>)) @@ ("A" :> ThemeDir(<<"hicolor">>, da)))) @@
        (Root2 :> ("hicolor" :> ThemeDir(<<"A">>, dh))),
      pixmaps |-> p] :
        da \in {<<>>, <<Dir32>>}, dh \in {<<>>, <<Dir48>>}, p \in PixmapListings}

(* A chain of n themes in the first root, "1" inheriting "2" and so on;    *)
(* only the last theme of the chain holds the icon.                        *)
ChainLayout(n) ==
    [themes |->
        (Root1 :> [name \in {ToString(i) : i \in 1..n} |->
                      ThemeDir(IF name = ToString(n) THEN <<>>
                               ELSE <<ToString((CHOOSE i \in 1..n : ToString(i) = name) + 1)>>,
                               IF name = ToString(n) THEN <<Dir48>> ELSE <<>>)])
        @@ (Root2 :> EmptyMap),
     pixmaps |-> Listing(<<>>)]

ChainLayouts == {ChainLayout(n) : n \in 1..MaxChain}
LongChainLayouts == {ChainLayout(n) : n \in {MaxChain - 1, MaxChain}}

(* Every theme name the filesystem mentions, and the default theme.        *)
NamesOf(disk) ==
    {DEFAULT_THEME, "ghost"}
    \cup UNION {DOMAIN disk.themes[r] : r \in DOMAIN disk.themes}
    \cup UNION {UNION {SeqToSet(disk.themes[r][n].inherits) : n \in DOMAIN disk.themes[r]} :
                   r \in DOMAIN disk.themes}

InitCache(layouts) ==
    /\ env = MainEnv
    /\ fs \in layouts
    /\ overflow_checks \in BOOLEAN
    /\ themes = Cache_new(fs).themes
    /\ pixmaps = Cache_new(fs).pixmaps
    /\ last = [op |-> "new"]

----------------------------------------------------------------------------
(* Operations of the cache *)
(* last records, besides the call and its result: the names loaded before  *)
(* the call, whether the call changed the theme map, and the result of the *)
(* call just before it when that was a load of the same name.              *)
Load(theme) ==
    LET r == load(themes, theme)
    IN  /\ themes' = r.themes
        /\ last' = [op |-> "load", theme |-> theme, ret |-> r.err, scans |-> r.scans,
                    before |-> DOMAIN themes,
                    changed |-> (r.themes # themes),
                    prev |-> IF last.op = "load" /\ last.theme = theme
                             THEN last.ret ELSE "none"]
        /\ UNCHANGED <<env, fs, overflow_checks, pixmaps>>

(* mutant of Lookup: a lookup in a theme that is not loaded loads it first *)
Lookup_loads_missing(name, theme) ==
    /\ themes' = load(themes, unwrap_or_default(theme)).themes
    /\ last' = [op |-> "lookup", name |-> name, theme |-> theme,
                f |-> [kind |-> "default", param |-> with_theme(LookupParam_new(name), theme)],
                before |-> DOMAIN themes,
                ret |-> lookup(name, theme)]
    /\ UNCHANGED <<env, fs, overflow_checks, pixmaps>>

Lookup(name, theme) ==
    /\ last' = [op |-> "lookup", name |-> name, theme |-> theme,
                f |-> [kind |-> "default", param |-> with_theme(LookupParam_new(name), theme)],
                before |-> DOMAIN themes,
                ret |-> lookup(name, theme)]
    /\ UNCHANGED <<env, fs, overflow_checks, themes, pixmaps>>

LookupParam(param) ==
    /\ last' = [op |-> "lookup_param", name |-> param.name, theme |-> param.theme,
                f |-> [kind |-> "default", param |-> param],
                before |-> DOMAIN themes,
                ret |-> lookup_param(param)]
    /\ UNCHANGED <<env, fs, overflow_checks, themes, pixmaps>>

LookupAdvanced(name, theme, f) ==
    /\ last' = [op |-> "lookup_advanced", name |-> name, theme |-> theme, f |-> f,
                before |-> DOMAIN themes,
                ret |-> lookup_advanced(name, theme, f)]
    /\ UNCHANGED <<env, fs, overflow_checks, themes, pixmaps>>

ThemeArgs == {None} \cup {Some(n) : n \in NamesOf(fs) \ {DEFAULT_THEME}}
SizeArgs == {None, Some(32), Some(300)}
ScaleArgs == {None}
Params ==
    {[name |-> n, theme |-> t, size |-> sz, scale |-> sc] :
        n \in IconNames, t \in ThemeArgs, sz \in SizeArgs, sc \in ScaleArgs}
Rankers == {[kind |-> k] : k \in {"first", "last", "out_of_range", "none"}}

DoLoad == \E theme \in NamesOf(fs) : Load(theme)
DoLookup == \E name \in IconNames, theme \in ThemeArgs : Lookup(name, theme)
DoLookupParam == \E param \in Params : LookupParam(param)
DoLookupAdvanced ==
    \E name \in IconNames, theme \in ThemeArgs, f \in Rankers : LookupAdvanced(name, theme, f)

Init == InitCache(LookupLayouts \cup CycleLayouts \cup LongChainLayouts)
Next == DoLoad \/ DoLookup \/ DoLookupParam \/ DoLookupAdvanced
Spec == Init /\ [][Next]_vars

(* Layouts where one of the two directories of "hicolor" cannot be         *)
(* constructed: index.theme missing or unparsable, no Directories key, or  *)
(* a declared directory whose traversal fails.                             *)
UnreadableDir ==
    [name |-> "48", spec |-> Some(Fixed(48, 1)), listing |-> [io |-> "error", entries |-> <<>>]]
FailingDirs ==
    {BrokenDir,
     [index |-> "invalid", inherits |-> <<>>, has_directories |-> FALSE, dirs |-> <<>>],
     [index |-> "ok", inherits |-> <<>>, has_directories |-> FALSE, dirs |-> <<>>],
     ThemeDir(<<>>, <<UnreadableDir>>)}
ErrorLayouts ==
    {[themes |-> (Root1 :> ("hicolor" :> d1)) @@ (Root2 :> ("hicolor" :> d2)),
      pixmaps |-> Listing(<<>>)] :
        d1 \in FailingDirs \cup {ThemeDir(<<>>, <<Dir48>>)},
        d2 \in FailingDirs \cup {ThemeDir(<<>>, <<Dir48>>)}}

InitLoad == InitCache(LoadLayouts \cup ChainLayouts \cup ErrorLayouts)
NextLoad == DoLoad
SpecLoad == InitLoad /\ [][NextLoad]_vars

----------------------------------------------------------------------------------------------------------------------------------------
(* The directory policy and the ranker on their own: the inputs are drawn  *)
(* from sample values around 0, around the usual sizes and around 2^16.    *)
MaxCandidates == 2

U16Samples == {0, 1, 2, 6, 7, 48, 65530, 65534, 65535}
ScaleSamples == {1, 2}
ThresholdSamples == {0, 2, 5}

DirectorySamples ==
    {Fixed(sz, sc) : sz \in U16Samples, sc \in ScaleSamples}
    \cup {Scalable(mn, sc, mn, mx) : mn \in U16Samples, mx \in U16Samples, sc \in ScaleSamples}
    \cup {Threshold(sz, sc, t) : sz \in U16Samples, sc \in ScaleSamples, t \in ThresholdSamples}

RankDirectories ==
    {Fixed(32, 1), Fixed(48, 1), Fixed(48, 2), Scalable(64, 1, 56, 256), Threshold(32, 1, 2)}
RankSizes == {None, Some(32), Some(48), Some(300)}
RankScales == {None, Some(1), Some(2)}
CandidateLists ==
    UNION {[1..n -> {[path |-> [dir |-> <<"d">>, file |-> FileF], directory |-> d] :
                        d \in RankDirectories}] : n \in 1..MaxCandidates}

(* The inputs of one call are drawn at the start; each operation is then   *)
(* applied to them.                                                        *)
DirectoryInputs ==
    {[op |-> "directory_input", d |-> d, size |-> sz, scale |-> sc] :
        d \in DirectorySamples, sz \in U16Samples, sc \in ScaleSamples}
RankInputs ==
    {[op |-> "rank_input", size |-> sz, scale |-> sc, infos |-> infos] :
        sz \in RankSizes, sc \in RankScales, infos \in CandidateLists}

IsMatches ==
    /\ last.op = "directory_input"
    /\ last' = [op |-> "is_matches", d |-> last.d, size |-> last.size, scale |-> last.scale,
                ret |-> is_matches(last.d, last.size, last.scale)]
    /\ UNCHANGED <<env, fs, overflow_checks, themes, pixmaps>>

SizeDistance ==
    /\ last.op = "directory_input"
    /\ last' = [op |-> "size_distance", d |-> last.d, size |-> last.size,
                scale |-> last.scale,
                ret |-> size_distance(last.d, last.size, last.scale)]
    /\ UNCHANGED <<env, fs, overflow_checks, themes, pixmaps>>

(* The ranker of lookup_param applied to a candidate list, for a           *)
(* LookupParam built with with_size / with_scale as the caller gives them. *)
BuildParam(size, scale) ==
    LET p0 == LookupParam_new(IconF)
        p1 == IF size.some THEN with_size(p0, size.val) ELSE p0
    IN  IF scale.some THEN with_scale(p1, scale.val) ELSE p1

Rank ==
    /\ last.op = "rank_input"
    /\ LET param == BuildParam(last.size, last.scale)
       IN  last' = [op |-> "rank", size |-> last.size, scale |-> last.scale,
                    infos |-> last.infos,
                    used_size |-> param_size(param), used_scale |-> param_scale(param),
                    ret |-> default_ranker(param, last.infos)]
    /\ UNCHANGED <<env, fs, overflow_checks, themes, pixmaps>>

InitDir ==
    /\ env = MainEnv
    /\ fs = [themes |-> [r \in Roots |-> EmptyMap], pixmaps |-> Listing(<<>>)]
    /\ overflow_checks \in BOOLEAN
    /\ themes = Cache_new(fs).themes
    /\ pixmaps = Cache_new(fs).pixmaps
    /\ last \in DirectoryInputs \cup RankInputs
NextDir == IsMatches \/ SizeDistance \/ Rank
SpecDir == InitDir /\ [][NextDir]_vars

----------------------------------------------------------------------------
(* Sequences of loads with their history: last also records the names the  *)
(* caller has asked for so far and whether every load so far succeeded.    *)
LoadTracked(theme) ==
    LET r == load(themes, theme)
    IN  /\ themes' = r.themes
        /\ last' = [op |-> "load", theme |-> theme, ret |-> r.err,
                    before |-> DOMAIN themes,
                    requested |-> (IF last.op = "load" THEN last.requested ELSE {}) \cup {theme},
                    all_ok |-> (last.op = "load" => last.all_ok) /\ r.err = "ok"]
        /\ UNCHANGED <<env, fs, overflow_checks, pixmaps>>

DoLoadTracked == \E theme \in NamesOf(fs) : LoadTracked(theme)

InitHist == InitCache(LoadLayouts)
NextHist == DoLoadTracked
SpecHist == InitHist /\ [][NextHist]_vars

----------------------------------------------------------------------------
(* search_dirs() on its own, over environments with HOME set or unset and  *)
(* XDG_DATA_DIRS unset or any string of at most MaxXdgLen pieces.          *)
MaxXdgLen == 3

XdgPieces == {"/usr/share", "/opt", ":"}
XdgStrings == UNION {[1..n -> XdgPieces] : n \in 0..MaxXdgLen}
EnvSamples ==
    {[HOME |-> h, XDG_DATA_DIRS |-> x] :
        h \in {None, Some("/tmp"), Some("/home")},
        x \in {None} \cup {Some(str) : str \in XdgStrings}}

SearchDirs ==
    /\ last.op = "env_input"
    /\ last' = [op |-> "search_dirs", ret |-> search_dirs(env)]
    /\ UNCHANGED <<env, fs, overflow_checks, themes, pixmaps>>

InitEnv ==
    /\ env \in EnvSamples
    /\ fs = [themes |-> EmptyMap, pixmaps |-> Listing(<<>>)]
    /\ overflow_checks \in BOOLEAN
    /\ themes = Cache_new(fs).themes
    /\ pixmaps = Cache_new(fs).pixmaps
    /\ last = [op |-> "env_input"]
NextEnv == SearchDirs
SpecEnv == InitEnv /\ [][NextEnv]_vars

----------------------------------------------------------------------------
(* Scanning: one directory listing, the same for /usr/share/pixmaps and    *)
(* for the only directory of "hicolor".  File names are all the strings of *)
(* at most MaxNameLen pieces over "f", "." and "p" that are not made of    *)
(* dots only; an entry is a file or a directory.                           *)
MaxNameLen == 3

NamePieces == {"f", ".", "p"}
FileNames ==
    {n \in UNION {[1..k -> NamePieces] : k \in 1..MaxNameLen} :
        \E i \in 1..Len(n) : n[i] # "."}
ScanEntries == {[name |-> n, is_dir |-> d] : n \in FileNames, d \in BOOLEAN}
ScanListings ==
    {<<e>> : e \in ScanEntries}
    \cup UNION {{<<e, File(n)>> : n \in {FileF, FileFs} \ {e.name}} : e \in ScanEntries}

ScanLayouts ==
    {[themes |-> (Root1 :> ("hicolor" :> ThemeDir(<<>>, <<IconDir("48", Fixed(48, 1), l)>>)))
                 @@ (Root2 :> EmptyMap),
      pixmaps |-> Listing(l)] : l \in ScanListings}

InitScan == InitCache(ScanLayouts)
NextScan == DoLoad
SpecScan == InitScan /\ [][NextScan]_vars

----------------
(* Helpers of the properties *)
WellFormed(disk) ==
    \A r \in DOMAIN disk.themes : \A n \in DOMAIN disk.themes[r] :
        disk.themes[r][n].index = "ok" /\ disk.themes[r][n].has_directories

(* n names m in the Inherits of one of its directories *)
Inherits(disk, n, m) ==
    \E r \in DOMAIN disk.themes :
        n \in DOMAIN disk.themes[r] /\ m \in SeqToSet(disk.themes[r][n].inherits)

RECURSIVE Descendants(_, _)
Descendants(disk, seen) ==
    LET more == seen \cup {m \in NamesOf(disk) : \E n \in seen : Inherits(disk, n, m)}
    IN  IF more = seen THEN seen ELSE Descendants(disk, more)

(* the themes reached from n by one or more Inherits steps *)
Ancestors(disk, n) ==
    Descendants(disk, {m \in NamesOf(disk) : Inherits(disk, n, m)})

OnCycle(disk, n) == n \in Ancestors(disk, n)

IsChain(disk) == \E n \in 1..MaxChain : disk = ChainLayout(n)
ChainLen(disk) == CHOOSE n \in 1..MaxChain : disk = ChainLayout(n)
ChainNames(n) == {ToString(i) : i \in 1..n}

----------------------------------------------------------------------------
C2_CyclicLoadFails ==
    (/\ last.op = "load"
     /\ WellFormed(fs)
     /\ OnCycle(fs, last.theme)
     /\ last.before \cap ({last.theme} \cup Ancestors(fs, last.theme)) = {})
        => last.ret = "CycleDetected"

(* C3 as stated: from an empty cache, loading the head of a chain of 9     *)
(* themes succeeds and loading the head of a chain of 11 themes fails with *)
(* CycleDetected, loading nothing.                                         *)
C3_ChainOf11Fails ==
    (last.op = "load" /\ last.theme = "1" /\ last.before = {} /\ IsChain(fs))
        => /\ ChainLen(fs) = 9 => last.ret = "ok"
           /\ ChainLen(fs) = 11 => (last.ret = "CycleDetected" /\ themes = EmptyMap)

(* C3 amended: from an empty cache, loading the head of a chain of at most *)
(* 11 themes (depths 0..10) succeeds and loads the whole chain; loading    *)
(* the head of a chain of 12 or more themes fails with CycleDetected and   *)
(* loads nothing.                                                          *)
C3_DepthCap ==
    (last.op = "load" /\ last.theme = "1" /\ last.before = {} /\ IsChain(fs))
        => IF ChainLen(fs) <= LoadDepthCap + 1
           THEN last.ret = "ok" /\ DOMAIN themes = ChainNames(ChainLen(fs))
           ELSE last.ret = "CycleDetected" /\ themes = EmptyMap

C3_Witness ==
    /\ last.op = "load" /\ last.theme = "1" /\ last.before = {}
    /\ IsChain(fs) /\ ChainLen(fs) = LoadDepthCap + 2
    /\ last.ret = "CycleDetected"

----------------------------------------------------------------------------
(* Reference walk of a lookup *)
IsLookup == last.op \in {"lookup", "lookup_param", "lookup_advanced"}
Requested == IF last.theme.some THEN last.theme.val ELSE DEFAULT_THEME

RECURSIVE Flatten(_)
Flatten(ss) == IF ss = <<>> THEN <<>> ELSE Head(ss) \o Flatten(Tail(ss))

(* The occurrences visited from a theme, in visiting order: its own        *)
(* occurrences in stored (root-priority) order, then for each parent named *)
(* by those occurrences, in declaration order, that parent's visit list;   *)
(* nothing for a theme that is not loaded or lies deeper than cap.         *)
RECURSIVE VisitOrder(_, _, _)
VisitOrder(theme, depth, cap) ==
    IF depth > cap \/ theme \notin DOMAIN themes THEN <<>>
    ELSE LET occs == themes[theme]
             parents == Flatten([i \in 1..Len(occs) |-> occs[i].inherits])
         IN  occs \o Flatten([j \in 1..Len(parents) |-> VisitOrder(parents[j], depth + 1, cap)])

(* The outcome at the first visited occurrence whose search yields one     *)
FirstOutcome(visits) ==
    LET hits == {i \in 1..Len(visits) : icon_search(visits[i], last.name, last.f) # None}
    IN  IF hits = {} THEN None
        ELSE LET first == CHOOSE i \in hits : \A k \in hits : i <= k
             IN  icon_search(visits[first], last.name, last.f)

Expected(visits) ==
    LET o == FirstOutcome(visits)
    IN  IF o = Panic THEN Panic
        ELSE IF o.some THEN Some(o.val.info.path)
        ELSE None

(* the loaded themes reached from a set of names by Inherits steps *)
LoadedParents(n) ==
    IF n \in DOMAIN themes
    THEN UNION {SeqToSet(themes[n][i].inherits) : i \in 1..Len(themes[n])}
    ELSE {}

RECURSIVE LoadedClosure(_)
LoadedClosure(seen) ==
    LET more == seen \cup UNION {LoadedParents(n) : n \in seen}
    IN  IF more = seen THEN seen ELSE LoadedClosure(more)

LoadedAcyclic == \A n \in DOMAIN themes : n \notin LoadedClosure(LoadedParents(n))

----------------------------------------------------------------------------
(* C4 as stated: a lookup for a theme that is not loaded returns None.     *)
C4_UnloadedThemeReturnsNone ==
    (IsLookup /\ Requested \notin last.before) => last.ret = None

(* C4 amended: a lookup for a theme that is not loaded returns the pixmap  *)
(* mapping's path for the name when the name is a key of it and None       *)
(* otherwise; it never fails and leaves the theme not loaded.              *)
C4_UnloadedThemeFallsBackToPixmaps ==
    (IsLookup /\ Requested \notin last.before)
        => /\ last.ret = IF last.name \in DOMAIN pixmaps
                         THEN Some(pixmaps[last.name]) ELSE None
           /\ Requested \notin DOMAIN themes

C4_Witness ==
    /\ IsLookup /\ Requested \notin last.before
    /\ themes # EmptyMap
    /\ \E n \in DOMAIN themes : \E i \in 1..Len(themes[n]) :
           last.name \in DOMAIN themes[n][i].icon_infos
    /\ last.ret = None

(* C5: a lookup returns the pixmap mapping's path for the name exactly     *)
(* when the themed walk yields no match and the name is a key of the       *)
(* pixmap mapping; a name held by no visited theme occurrence but by the   *)
(* pixmap mapping returns the pixmap's path.                               *)
C5_PixmapFallback ==
    IsLookup =>
        LET visits == VisitOrder(Requested, 0, LookupDepthCap)
        IN  /\ (last.ret.some /\ last.name \in DOMAIN pixmaps
                              /\ last.ret.val = pixmaps[last.name])
                   <=> (FirstOutcome(visits) = None /\ last.name \in DOMAIN pixmaps)
            /\ (/\ \A i \in 1..Len(visits) : last.name \notin DOMAIN visits[i].icon_infos
                /\ last.name \in DOMAIN pixmaps)
                   => last.ret = Some(pixmaps[last.name])

C5_Witness ==
    /\ IsLookup /\ Requested \in DOMAIN themes
    /\ last.name \in DOMAIN pixmaps
    /\ FirstOutcome(VisitOrder(Requested, 0, LookupDepthCap)).some
    /\ last.ret.some /\ last.ret.val # pixmaps[last.name]

(* C6 as stated: the themed result of a lookup in a loaded theme is the    *)
(* first match in the order: its occurrences, then its parents in          *)
(* declaration order, recursively, with no limit on the depth (stated for  *)
(* caches whose loaded themes do not inherit in a cycle).                  *)
C6_FirstMatchAtAnyDepth ==
    (IsLookup /\ Requested \in DOMAIN themes /\ LoadedAcyclic)
        => LET want == Expected(VisitOrder(Requested, 0, Cardinality(DOMAIN themes)))
           IN  want # None => last.ret = want

(* C6 amended: the same order, searched down to inheritance depth 10: an   *)
(* ancestor more than 10 levels below the requested theme is not searched. *)
(* A parent that is not loaded is skipped and the parents after it are     *)
(* still searched; without a themed match the result is not a themed path. *)
C6_FirstMatchWithinDepthCap ==
    (IsLookup /\ Requested \in DOMAIN themes)
        => LET want == Expected(VisitOrder(Requested, 0, LookupDepthCap))
           IN  IF want # None THEN last.ret = want
               ELSE last.ret = None \/ (last.name \in DOMAIN pixmaps
                                        /\ last.ret = Some(pixmaps[last.name]))

C6_Witness ==
    /\ IsLookup /\ Requested = "A" /\ "A" \in DOMAIN themes
    /\ last.name \notin DOMAIN themes["A"][1].icon_infos
    /\ themes["A"][1].inherits = <<"ghost", "hicolor">>
    /\ "ghost" \notin DOMAIN themes
    /\ "hicolor" \in DOMAIN themes /\ Len(themes["hicolor"]) = 2
    /\ last.name \notin DOMAIN themes["hicolor"][1].icon_infos
    /\ last.name \in DOMAIN themes["hicolor"][2].icon_infos
    /\ last.ret.some /\ last.ret.val.dir[1] = "/usr/share"

----------------------------------------------------------------------------
(* What the caller of a default lookup asked for *)
RequestedSize == IF last.size.some THEN last.size.val ELSE DefaultSize
RequestedScale == IF last.scale.some THEN last.scale.val ELSE DefaultScale

Least(S) == CHOOSE i \in S : \A k \in S : i <= k

(* C7: for a non-empty candidate list and the requested (size, scale), the *)
(* default ranker selects the first candidate whose directory matches; if  *)
(* none matches, the candidate of minimum distance, the first one among    *)
(* those of equal minimum distance.                                        *)
C7_DefaultRanker ==
    last.op = "rank" =>
        LET n == Len(last.infos)
            matching == {i \in 1..n :
                            is_matches(last.infos[i].directory, RequestedSize, RequestedScale)}
            dist(i) == size_distance(last.infos[i].directory, RequestedSize, RequestedScale)
            nearest == {i \in 1..n : \A k \in 1..n : dist(i).val <= dist(k).val}
        IN  IF matching # {} THEN last.ret = Some(Least(matching) - 1)
            ELSE /\ \A i \in 1..n : dist(i) # Panic
                 /\ last.ret = Some(Least(nearest) - 1)

(* C8: the size used for ranking is the caller's size, or 48 when none is  *)
(* given; the scale used is the caller's scale, or 1 when none is given.   *)
C8_IndependentDefaults ==
    last.op = "rank" =>
        /\ last.used_size = RequestedSize
        /\ last.used_scale = RequestedScale

(* C9: matches(size, scale) is the reference predicate: the scales are     *)
(* equal and, Fixed: size = nominal size; Scalable: min <= size <= max;    *)
(* Threshold: |size - nominal size| <= threshold, in unbounded integers.   *)
Abs(x) == IF x < 0 THEN 0 - x ELSE x

C9_MatchesReference ==
    last.op = "is_matches" =>
        (last.ret <=>
            /\ last.d.scale = last.scale
            /\ \/ last.d.kind = "Fixed" /\ last.size = last.d.size
               \/ last.d.kind = "Scalable"
                     /\ last.d.min_size <= last.size /\ last.size <= last.d.max_size
               \/ last.d.kind = "Threshold"
                     /\ Abs(last.size - last.d.size) <= last.d.threshold)

C9_Witness ==
    /\ last.op = "is_matches"
    /\ last.d = Threshold(1, 1, 5) /\ last.size = 0 /\ last.scale = 1
    /\ last.ret

(* C10: distance(size, scale) is 0 exactly when matches(size, scale) is    *)
(* true, and strictly positive otherwise.                                  *)
C10_ZeroDistanceIffMatches ==
    last.op = "size_distance" =>
        /\ last.ret.some
        /\ (last.ret.val = 0) <=> is_matches(last.d, last.size, last.scale)
        /\ last.ret.val >= 0

----------------------------------------------------------------------------
(* The errors Theme::new and find_dir_icons can produce *)
ConstructionErrors == {"ThemeIndexMissing", "InvalidIndex", "InvalidTheme", "TraverseDir"}

(* C11: a load(T) of a theme that is not loaded and that fails with a      *)
(* construction-time error leaves T out of the loaded set, and a load(T)   *)
(* repeated right after a failed load(T) does not return success without   *)
(* constructing anything.                                                  *)
C11_FailedLoadLeavesNoTrace ==
    /\ (last.op = "load" /\ last.theme \notin last.before
                         /\ last.ret \in ConstructionErrors)
           => last.theme \notin DOMAIN themes
    /\ (last.op = "load" /\ last.prev \in ConstructionErrors)
           => ~(last.ret = "ok" /\ last.scans = 0)

----------------------------------------------------------------------------
(* the paths of the stored occurrences of a theme, in stored order *)
OccurrencePaths(theme) ==
    IF theme \in DOMAIN themes
    THEN [i \in 1..Len(themes[theme]) |-> themes[theme][i].path]
    ELSE <<>>

(* the directories of a theme on disk, in search-root priority order *)
RECURSIVE DirectoriesOf(_, _)
DirectoriesOf(theme, dirs) ==
    IF dirs = <<>> THEN <<>>
    ELSE (IF theme \in DOMAIN fs.themes[Head(dirs)] THEN << Head(dirs) \o <<theme>> >> ELSE <<>>)
         \o DirectoriesOf(theme, Tail(dirs))

(* C12: after a successful load(T) of a theme that was not loaded, the     *)
(* cache holds exactly one occurrence of T per search root containing T,   *)
(* in search-root priority order.                                          *)
C12_OneOccurrencePerRoot ==
    (last.op = "load" /\ last.ret = "ok" /\ last.theme \notin last.before)
        => OccurrencePaths(last.theme) = DirectoriesOf(last.theme, search_dirs(env))

----------------------------------------------------------------------------
----------------------------------------------------------------------------
(* The entries of a colon-separated string, by the positions of its colons *)
ColonsOf(str) == {i \in 1..Len(str) : str[i] = ":"}
ColonAt(str, k) ==
    IF k = 0 THEN 0
    ELSE IF k > Cardinality(ColonsOf(str)) THEN Len(str) + 1
    ELSE CHOOSE i \in ColonsOf(str) : Cardinality({j \in ColonsOf(str) : j < i}) = k - 1
EntryOf(str, k) == SubSeq(str, ColonAt(str, k - 1) + 1, ColonAt(str, k) - 1)

(* C14: the search roots are $HOME/.icons first (when HOME is set), then   *)
(* one root per entry of $XDG_DATA_DIRS, in order, the entry joined with   *)
(* "icons"; or, when XDG_DATA_DIRS is unset, /usr/share/local/icons then   *)
(* /usr/share/icons.  HOME=/tmp with XDG_DATA_DIRS unset gives             *)
(* [/tmp/.icons, /usr/share/local/icons, /usr/share/icons].                *)
C14_SearchRootsInPriorityOrder ==
    last.op = "search_dirs" =>
        LET home == IF env.HOME.some THEN << <<env.HOME.val, ".icons">> >> ELSE <<>>
            str == env.XDG_DATA_DIRS.val
            rest == IF env.XDG_DATA_DIRS.some
                    THEN [k \in 1..(Cardinality(ColonsOf(str)) + 1) |->
                             EntryOf(str, k) \o <<"icons">>]
                    ELSE << <<"/usr/share/local", "icons">>, <<"/usr/share", "icons">> >>
        IN  /\ last.ret = home \o rest
            /\ (env.HOME = Some("/tmp") /\ ~env.XDG_DATA_DIRS.some)
                   => last.ret = << <<"/tmp", ".icons">>, <<"/usr/share/local", "icons">>,
                                    <<"/usr/share", "icons">> >>

C14_Witness ==
    /\ last.op = "search_dirs"
    /\ env.HOME = Some("/home")
    /\ env.XDG_DATA_DIRS = Some(<<"/opt", ":", "/usr/share">>)
    /\ last.ret = << <<"/home", ".icons">>, <<"/opt", "icons">>, <<"/usr/share", "icons">> >>

----------------------------------------------------------------------------
(* C15: every lookup, in every reachable cache state (loaded themes that   *)
(* inherit in a cycle included), returns a path or None and never fails.   *)
C15_LookupAlwaysReturns ==
    IsLookup => (last.ret = None \/ (last.ret # Panic /\ last.ret.some))

----------------------------------------------------------------------------
(* C16: for every directory and every requested size and scale in          *)
(* 0..65535, distance(size, scale) is computed without overflow and equals *)
(* the gap between size * scale and the nearest edge of the directory's    *)
(* range, or 0 inside the range.                                           *)
C16_DistanceIsTotal ==
    last.op = "size_distance" =>
        LET scaled == last.size * last.scale
            range == size_distance_range(last.d)
            gap == IF scaled < range[1] THEN range[1] - scaled
                   ELSE IF scaled > range[2] THEN scaled - range[2]
                   ELSE 0
        IN  /\ last.ret # Panic
            /\ last.ret = Some(gap)

----------------------------------------------------------------------------
(* the name of a file without its extension: the part before the last "." *)
(* when the name has one, the whole name otherwise                        *)
StemOf(name) ==
    LET dots == {i \in 1..Len(name) : name[i] = "."}
    IN  IF dots = {} THEN name
        ELSE SubSeq(name, 1, (CHOOSE i \in dots : \A j \in dots : j <= i) - 1)

ScannedFiles ==
    {fs.pixmaps.entries[i].name :
        i \in {j \in 1..Len(fs.pixmaps.entries) : ~fs.pixmaps.entries[j].is_dir}}

(* C17: every non-directory file of the pixmap directory and of a scanned  *)
(* theme directory is indexed under its name with the extension stripped,  *)
(* a name without "." under the whole name; nothing is indexed under the   *)
(* empty string.                                                           *)
C17_IndexedUnderStem ==
    (last.op = "load" /\ last.theme = "hicolor" /\ last.ret = "ok" /\ fs \in ScanLayouts)
        => /\ \A n \in ScannedFiles :
                  /\ StemOf(n) \in DOMAIN pixmaps
                  /\ StemOf(n) \in DOMAIN themes["hicolor"][1].icon_infos
                  /\ \E k \in 1..Len(themes["hicolor"][1].icon_infos[StemOf(n)]) :
                         themes["hicolor"][1].icon_infos[StemOf(n)][k].path.file = n
           /\ (\A n \in ScannedFiles : "." \notin SeqToSet(n))
                  => /\ <<>> \notin DOMAIN pixmaps
                     /\ <<>> \notin DOMAIN themes["hicolor"][1].icon_infos

----------------------------------------------------------------------------
ExistsOnDisk(name) == \E r \in DOMAIN fs.themes : name \in DOMAIN fs.themes[r]

(* C18: in every state reached by load calls, successful or failed, every  *)
(* parent named in the Inherits of a loaded theme occurrence is itself     *)
(* loaded or exists in no search root.                                     *)
C18_InheritanceClosure ==
    \A n \in DOMAIN themes : \A i \in 1..Len(themes[n]) :
        \A p \in SeqToSet(themes[n][i].inherits) :
            p \in DOMAIN themes \/ ~ExistsOnDisk(p)

C18_Witness ==
    /\ last.op = "load" /\ last.ret \in ConstructionErrors
    /\ \E n \in DOMAIN themes : \E i \in 1..Len(themes[n]) :
           /\ themes[n][i].inherits # <<>>
           /\ themes[n][i].inherits[1] \in DOMAIN themes \ {n}
    /\ \E n \in DOMAIN themes : \E i \in 1..Len(themes[n]) :
           /\ themes[n][i].inherits # <<>>
           /\ ~ExistsOnDisk(themes[n][i].inherits[1])

----------------------------------------------------------------------------
(* C19: load(T) of a name found in no search root succeeds and does not    *)
(* add T; after a sequence of loads that all succeeded, the loaded names   *)
(* are exactly the names asked for, and their ancestors by Inherits, that  *)
(* exist in some search root; ThemeNotFound is never returned.             *)
C19_MissingThemeLoadsNothing ==
    last.op = "load" =>
        /\ ~ExistsOnDisk(last.theme) => (last.ret = "ok" /\ last.theme \notin DOMAIN themes)
        /\ last.all_ok =>
               DOMAIN themes =
                   {n \in last.requested \cup UNION {Ancestors(fs, t) : t \in last.requested} :
                       ExistsOnDisk(n)}
        /\ last.ret # "ThemeNotFound"

C19_Witness ==
    /\ last.op = "load" /\ last.all_ok
    /\ last.theme = "ghost"
    /\ Cardinality(last.requested) = 2
    /\ DOMAIN themes \ last.requested # {}
    /\ \E n \in DOMAIN themes : \E i \in 1..Len(themes[n]) :
           themes[n][i].inherits = <<"ghost">>

----------------------------------------------------------------------------
(* the paths of the candidates the requested theme holds for the name *)
OwnCandidates ==
    UNION {{themes[Requested][i].icon_infos[last.name][k].path :
               k \in 1..Len(themes[Requested][i].icon_infos[last.name])} :
           i \in {j \in 1..Len(themes[Requested]) :
                     last.name \in DOMAIN themes[Requested][j].icon_infos}}

(* C20: under the default ranker, when some occurrence of the requested    *)
(* loaded theme has a candidate for the name, the lookup returns a         *)
(* candidate of that theme, whether or not it matches the requested size   *)
(* and whatever the parents hold.                                          *)
C20_RequestedThemeShadowsParents ==
    (/\ last.op \in {"lookup", "lookup_param"}
     /\ Requested \in DOMAIN themes
     /\ OwnCandidates # {})
        => (last.ret # Panic /\ last.ret.some /\ last.ret.val \in OwnCandidates)

====
